---- MODULE Spec2Model ----
(***************************************************************************)
(* Optimistic-update reconciliation of the card manager.                   *)
(*                                                                         *)
(* The repository holds two variants of CardManager in CardManager.tsx:    *)
(*   "remove"      lines  33-226: delete goes through                      *)
(*                 useActionState(deleteCardAction) and the projection     *)
(*                 reducer filters the card out;                           *)
(*   "markPending" lines 439-647: handleDeleteCard awaits                  *)
(*                 deleteCardAction(cardId) itself, the reducer keeps the  *)
(*                 card and pendingOperations flags it.                    *)
(* Both run against the server actions and the in-memory API of            *)
(* lib/actions.ts.  One behaviour of the model is one mounted CardManager  *)
(* of one variant, its user, the network and the backend.                  *)
(*                                                                         *)
(* Strings that the code inspects are modelled by their structure:         *)
(*   - an id is <<prefix, n>>: `temp-${Date.now()}` is <<"temp-", now>>,   *)
(*     Date.now().toString() is <<"", now>>, String(object) is             *)
(*     <<"[object Object]", 0>>;                                           *)
(*   - title and description are sequences of characters over Chars.       *)
(***************************************************************************)
EXTENDS Integers, Sequences, FiniteSets, TLC

\* ---------------------------------------------------------------- bounds
MaxCreates == 1     \* accepted creates per behaviour
MaxInFlight == 2    \* delete calls in flight at the same time
MaxQueue == 2       \* optimistic updates dispatched within one transition
MaxBase == 2        \* length of a base list the reducer is applied to on its own
MaxTicks == 1       \* milliseconds that pass while the API route is called
MaxStore == 3       \* cards the backend store holds when the route is called
MaxLoads == 2       \* times the route fetches the fixture

\* ------------------------------------------------------------- text model
Chars == {" ", "a"}

\* what the user types into the title and the description field: nothing,
\* white space only, a text, a text with leading white space
FormTexts == {<<>>, <<" ">>, <<"a">>, <<" ", "a">>}
\* <input type="color"> always carries a value
FormColors == {"#ff0000"}

RECURSIVE TrimStart(_)
TrimStart(s) == IF s # <<>> /\ Head(s) = " " THEN TrimStart(Tail(s)) ELSE s

RECURSIVE TrimEnd(_)
TrimEnd(s) ==
  IF s # <<>> /\ s[Len(s)] = " " THEN TrimEnd(SubSeq(s, 1, Len(s) - 1)) ELSE s

\* String.prototype.trim
Trim(s) == TrimEnd(TrimStart(s))

\* the value of a field that the request does not carry
Undefined == <<"undefined">>

\* JavaScript truthiness of a string-valued field: the empty string and
\* undefined are falsy
NonEmpty(s) == s # <<>> /\ s # Undefined

\* --------------------------------------------------------------- id model
TempPrefix == "temp-"
TempId(now) == <<TempPrefix, now>>
ServerId(now) == <<"", now>>
ObjectObjectId == <<"[object Object]", 0>>
\* searchParams.get("id") of a URL without an id parameter
NullId == <<"null", 0>>

\* card.id.startsWith("temp-")
StartsWithTemp(id) == id[1] = TempPrefix

Ids(list) == {list[i].id : i \in 1..Len(list)}

FilterOutId(list, id) == SelectSeq(list, LAMBDA c : c.id # id)
FilterOutTemp(list) == SelectSeq(list, LAMBDA c : ~StartsWithTemp(c.id))

NoTemp(list) == \A i \in 1..Len(list) : ~StartsWithTemp(list[i].id)

\* ----------------------------------------------------------- ActionState
NoCard == [id |-> <<"undefined", 0>>]

initialActionState ==
  [kind |-> "object", success |-> FALSE, message |-> "", error |-> "undefined",
   card |-> NoCard]

ValidationFailure ==
  [kind |-> "object", success |-> FALSE, message |-> "title and description required",
   error |-> "validation_error", card |-> NoCard]

ApiFailure ==
  [kind |-> "object", success |-> FALSE, message |-> "create failed",
   error |-> "api_error", card |-> NoCard]

ServerFailure ==
  [kind |-> "object", success |-> FALSE, message |-> "create error",
   error |-> "server_error", card |-> NoCard]

CreateSuccess(card) ==
  [kind |-> "object", success |-> TRUE, message |-> "created",
   error |-> "undefined", card |-> card]

\* the boolean deleteCardAction resolves with
JsBoolean(b) ==
  [kind |-> "boolean", success |-> FALSE, message |-> "", error |-> "undefined",
   card |-> NoCard, value |-> b]

\* a string value; ids are never the empty string
JsString(id) == [kind |-> "string", value |-> id]

\* !value for the values the cardId parameter of deleteCardAction is bound to
Falsy(v) == v.kind = "boolean" /\ ~v.value

\* ------------------------------------------------------------------ state
VARIABLES
  variant,            \* which CardManager is mounted: "remove" or "markPending"
  srvCards,           \* backend: the module-level `cards` array of the API route
  clock,              \* Date.now()
  cards,              \* client Entity Store: useState `cards` of CardManager
  optQueue,           \* useOptimistic: updates dispatched in a still pending transition
  optimisticCards,    \* the projection as last rendered
  isPending,          \* useTransition
  createState,        \* useActionState(createCardAction)
  deleteState,        \* useActionState(deleteCardAction), "remove" variant
  pendingOperations,  \* useState Set of ids, "markPending" variant
  createOp,           \* the createCardAction call in flight
  deleteOps,          \* the deleteCardAction calls in flight
  effectPending,      \* which useEffect is scheduled after the last commit
  createBefore,       \* history: `cards` when the last create was submitted
  deletedIds,         \* history: ids whose delete was confirmed and reconciled
  lastEvent,          \* history: the step taken last
  getOps,             \* backend: GET calls awaiting loadInitialCards
  apiResponse,        \* backend: the response of the last call made to the route
  fixtureLoads,       \* history: how often GET has assigned the fixture to the store
  showManager,        \* MainClient: useState `showManager`
  search,             \* MainClient: useState `search`
  currentPage,        \* MainClient: useState `currentPage`
  initialCards,       \* MainClient: use(cardPromise)
  pagerProps,         \* Pagination: currentPage, totalPages, maxVisiblePages
  pages               \* Pagination: what generatePageNumbers returned last

vars ==
  <<variant, srvCards, clock, cards, optQueue, optimisticCards, isPending,
    createState, deleteState, pendingOperations, createOp, deleteOps,
    effectPending, createBefore, deletedIds, lastEvent, getOps, apiResponse,
    fixtureLoads, showManager, search, currentPage, initialCards, pagerProps,
    pages>>

\* the variables of the API route that the card manager never touches
apiVars == <<getOps, apiResponse, fixtureLoads>>

\* the variables of MainClient and of Pagination
pageVars == <<showManager, search, currentPage, initialCards, pagerProps, pages>>

\* the props Pagination has before it is rendered with others
NoProps == [currentPage |-> 1, totalPages |-> 0, maxVisiblePages |-> 5]

\* MainClient as long as only the card manager is looked at: manager mode,
\* nothing searched, nothing paged
ManagerShown ==
  /\ showManager = TRUE
  /\ search = <<>>
  /\ currentPage = 1
  /\ pagerProps = NoProps
  /\ pages = <<>>

\* no page rendered at all
NoPage ==
  /\ showManager = FALSE
  /\ search = <<>>
  /\ currentPage = 1
  /\ initialCards = <<>>
  /\ pagerProps = NoProps
  /\ pages = <<>>

Idle == [stage |-> "idle"]

\* value of lastEvent: the kind of step and, for a delete, the card id handed
\* to handleDeleteCard, whether deleteCardAction resolved true, and whether
\* the backend held the card when the delete was submitted
Ev(kind) == [kind |-> kind, id |-> <<"undefined", 0>>, success |-> FALSE, existed |-> FALSE]
DeleteEv(kind, op, ok) ==
  [kind |-> kind, id |-> op.cardId, success |-> ok, existed |-> op.existed]

\* ----------------------------------------------------- projection engine
\* mutant of optimisticReducerRemove: `create` puts the card in front and
\* `delete` keeps only the card it should remove
optimisticReducerRemoveWrong(state, action) ==
  CASE action.type = "create" -> <<action.data>> \o state
    [] action.type = "delete" -> SelectSeq(state, LAMBDA c : c.id = action.data)
    [] OTHER -> state

\* the reducer handed to useOptimistic, "remove" variant
optimisticReducerRemove(state, action) ==
  CASE action.type = "create" -> Append(state, action.data)
    [] action.type = "delete" -> FilterOutId(state, action.data)
    [] OTHER -> state

\* mutant of optimisticReducerMark: `delete` filters the card out, as the
\* reducer of the "remove" variant does
optimisticReducerMarkFilters(state, action) ==
  CASE action.type = "create" -> Append(state, action.data)
    [] action.type = "delete" -> FilterOutId(state, action.data)
    [] OTHER -> state

\* the reducer handed to useOptimistic, "markPending" variant
optimisticReducerMark(state, action) ==
  CASE action.type = "create" -> Append(state, action.data)
    [] action.type = "delete" -> state
    [] OTHER -> state

RECURSIVE ApplyQueue(_, _, _)
ApplyQueue(v, state, queue) ==
  IF queue = <<>> THEN state
  ELSE ApplyQueue(v,
                  IF v = "remove" THEN optimisticReducerRemove(state, Head(queue))
                                  ELSE optimisticReducerMark(state, Head(queue)),
                  Tail(queue))

\* useOptimistic(cards, reducer): the passthrough state while no transition is
\* pending, otherwise the reducer folded over the updates of the transition
useOptimistic(v, base, queue) == ApplyQueue(v, base, queue)

\* mutant of Render: useOptimistic is handed the `cards` prop the component
\* was mounted with instead of the `cards` state
RenderFromInitialCards(v, store, queue) ==
  useOptimistic(v, [i \in 1..2 |->
                      [id |-> ServerId(i), title |-> <<"a">>,
                       description |-> <<"a">>, color |-> "#000000"]], queue)

\* const [optimisticCards, optimisticUpdate] = useOptimistic(cards, reducer)
\* of the mounted variant: what a render yields for the given `cards`
Render(v, store, queue) == useOptimistic(v, store, queue)

\* mutant of cardIsPending: without the test of the "temp-" prefix
cardIsPendingOperationsOnly(card) == card.id \in pendingOperations

\* displayCards[i].isPending of the "markPending" variant
cardIsPending(card) == card.id \in pendingOperations \/ StartsWithTemp(card.id)

\* mutant of deleteDisabled: CardItem is handed isPending={isPending} instead
\* of isPending={card.isPending || isPending}
deleteDisabledTransitionOnly(card) ==
  IF variant = "remove"
  THEN isPending
  ELSE cardIsPending(card) /\ isPending

\* `disabled` of the delete button of a rendered card
deleteDisabled(card) ==
  IF variant = "remove"
  THEN isPending
  ELSE \* CardItem: isCardPending = card.isPending && (card.isPending || isPending)
       cardIsPending(card) /\ (cardIsPending(card) \/ isPending)

\* ---------------------------------------------------------------- backend
\* mock.json as served to loadInitialCards
loadInitialCards ==
  [i \in 1..2 |->
     [id |-> ServerId(i), title |-> <<"a">>, description |-> <<"a">>,
      color |-> "#000000"]]

\* the first Date.now() of a behaviour: later than the ids of the fixture
Epoch == Len(loadInitialCards) + 1

\* mutant of POST: the card is stored with the title and the description as
\* they came
POSTUntrimmed(body, store, now) ==
  IF ~NonEmpty(body.title) \/ ~NonEmpty(body.description)
  THEN [status |-> 400, success |-> FALSE, card |-> NoCard, store |-> store]
  ELSE LET newCard == [id |-> ServerId(now),
                       title |-> body.title,
                       description |-> body.description,
                       color |-> IF body.color = "" THEN "#000000" ELSE body.color]
       IN  [status |-> 201, success |-> TRUE, card |-> newCard,
            store |-> Append(store, newCard)]

\* POST /api/cards: the response and the store afterwards
POST(body, store, now) ==
  IF ~NonEmpty(body.title) \/ ~NonEmpty(body.description)
  THEN [status |-> 400, success |-> FALSE, card |-> NoCard, store |-> store]
  ELSE LET newCard == [id |-> ServerId(now),
                       title |-> Trim(body.title),
                       description |-> Trim(body.description),
                       color |-> IF body.color = "" THEN "#000000" ELSE body.color]
       IN  [status |-> 201, success |-> TRUE, card |-> newCard,
            store |-> Append(store, newCard)]

\* cards.findIndex((card) => card.id === id), 0 for -1
findIndex(store, id) ==
  IF id \in Ids(store)
  THEN CHOOSE i \in 1..Len(store) :
         store[i].id = id /\ \A j \in 1..(i - 1) : store[j].id # id
  ELSE 0

\* mutant of DELETE: cards.splice(cardIndex) without the count
DELETESpliceToEnd(id, store) ==
  LET cardIndex == findIndex(store, id)
  IN  IF id = NullId
      THEN [status |-> 400, store |-> store]
      ELSE IF cardIndex = 0
      THEN [status |-> 404, store |-> store]
      ELSE [status |-> 200, store |-> SubSeq(store, 1, cardIndex - 1)]

\* DELETE /api/cards?id=<id>: the status and the store afterwards
DELETE(id, store) ==
  LET cardIndex == findIndex(store, id)
  IN  IF id = NullId
      THEN [status |-> 400, store |-> store]
      ELSE IF cardIndex = 0
      THEN [status |-> 404, store |-> store]
      ELSE [status |-> 200,
            store |-> SubSeq(store, 1, cardIndex - 1)
                        \o SubSeq(store, cardIndex + 1, Len(store))]

\* what the route has answered last: nothing yet, or a status with the card or
\* the card list of the body
NoResponse == [status |-> 0, card |-> NoCard, cards |-> <<>>]
Response(status, card, list) == [status |-> status, card |-> card, cards |-> list]

\* ---------------------------------------------------------- server actions
\* createCardAction up to its first await: the validation result, or the
\* body of the POST it sends
createCardActionStart(formData) ==
  IF ~NonEmpty(formData.title) \/ ~NonEmpty(formData.description)
  THEN [stage |-> "returned", result |-> ValidationFailure]
  ELSE [stage |-> "request",
        body |-> [title |-> Trim(formData.title),
                  description |-> Trim(formData.description),
                  color |-> IF formData.color = "" THEN "#000000" ELSE formData.color]]

\* what an async function that threw past its last handler settles with
Rejected ==
  [kind |-> "rejected", success |-> FALSE, message |-> "", error |-> "undefined",
   card |-> NoCard]

\* mutant of createCardActionResult: no catch around the fetch
createCardActionResultUncaught(op) ==
  CASE op.stage = "returned" -> op.result
    [] op.stage = "threw" -> Rejected
    [] op.stage = "response" ->
         IF ~op.response.success THEN ApiFailure ELSE CreateSuccess(op.response.card)

\* createCardAction after the fetch has settled
createCardActionResult(op) ==
  CASE op.stage = "returned" -> op.result
    [] op.stage = "threw" -> ServerFailure
    [] op.stage = "response" ->
         IF ~op.response.success THEN ApiFailure ELSE CreateSuccess(op.response.card)

\* deleteCardAction(cardId) up to its first await; `arg` is the value bound
\* to cardId: the id string in the "markPending" variant, the previous state
\* of useActionState in the "remove" variant
deleteCardActionStart(arg) ==
  IF Falsy(arg)
  THEN [stage |-> "threw", reqId |-> NoCard.id]
  ELSE [stage |-> "request",
        reqId |-> IF arg.kind = "string" THEN arg.value ELSE ObjectObjectId]

\* deleteCardAction after the fetch has settled
deleteCardActionResult(op) == op.stage = "ok"

\* ------------------------------------------------------------------- Init
Init ==
  /\ variant \in {"remove", "markPending"}
  /\ srvCards = loadInitialCards
  /\ clock = Epoch
  /\ cards = loadInitialCards
  /\ optQueue = <<>>
  /\ optimisticCards = loadInitialCards
  /\ isPending = FALSE
  /\ createState = initialActionState
  /\ deleteState = initialActionState
  /\ pendingOperations = {}
  /\ createOp = Idle
  /\ deleteOps = {}
  /\ effectPending = "none"
  /\ createBefore = <<>>
  /\ deletedIds = {}
  /\ lastEvent = Ev("mount")
  \* page.tsx has fetched the cards the manager is mounted with
  /\ getOps = 0
  /\ apiResponse = Response(200, NoCard, loadInitialCards)
  /\ fixtureLoads = 1
  /\ initialCards = loadInitialCards
  /\ ManagerShown

\* a user event reaches the card manager only in manager mode and after the
\* passive effects of the last commit
UserCanAct == showManager /\ effectPending = "none"

\* ------------------------------------------------------------ create flow
\* mutant of handleCreateCard: the temporary card is also put into `cards`
handleCreateCardIntoStore(title, description, color) ==
  /\ UserCanAct
  /\ ~isPending                       \* submit button: disabled={isPending}
  /\ clock - Epoch < MaxCreates
  \* the inline form of the "remove" variant marks both fields `required`
  /\ variant = "remove" => (NonEmpty(title) /\ NonEmpty(description))
  /\ LET formData == [title |-> title, description |-> description, color |-> color]
         optimisticCard == [id |-> TempId(clock),
                            title |-> title,
                            description |-> description,
                            color |-> IF color = "" THEN "#000000" ELSE color]
         started == createCardActionStart(formData)
     IN  /\ optQueue' = Append(optQueue, [type |-> "create", data |-> optimisticCard])
         /\ createOp' = started @@ [formData |-> formData, tempId |-> optimisticCard.id]
  /\ isPending' = TRUE
  /\ cards' = Append(cards, [id |-> TempId(clock), title |-> title,
                            description |-> description, color |-> color])
  /\ optimisticCards' = Render(variant, cards', optQueue')
  /\ createBefore' = cards
  /\ lastEvent' = Ev("handleCreateCard")
  /\ UNCHANGED <<variant, srvCards, clock, createState, deleteState,
                 pendingOperations, deleteOps, effectPending, deletedIds>>
  /\ UNCHANGED apiVars
  /\ UNCHANGED pageVars

\* mutant of handleCreateCard: the action is started without the optimistic
\* update
handleCreateCardNotOptimistic(title, description, color) ==
  /\ UserCanAct
  /\ ~isPending
  /\ clock - Epoch < MaxCreates
  /\ variant = "remove" => (NonEmpty(title) /\ NonEmpty(description))
  /\ LET formData == [title |-> title, description |-> description, color |-> color]
         started == createCardActionStart(formData)
     IN  createOp' = started @@ [formData |-> formData, tempId |-> TempId(clock)]
  /\ isPending' = TRUE
  /\ optimisticCards' = Render(variant, cards, optQueue)
  /\ createBefore' = cards
  /\ lastEvent' = Ev("handleCreateCard")
  /\ UNCHANGED <<variant, srvCards, clock, cards, optQueue, createState, deleteState,
                 pendingOperations, deleteOps, effectPending, deletedIds>>
  /\ UNCHANGED apiVars
  /\ UNCHANGED pageVars

\* handleCreateCard of either variant (lines 147-171 and 557-584) with the
\* synchronous part of createCardAction it starts
handleCreateCard(title, description, color) ==
  /\ UserCanAct
  /\ ~isPending                       \* submit button: disabled={isPending}
  /\ clock - Epoch < MaxCreates
  \* the inline form of the "remove" variant marks both fields `required`
  /\ variant = "remove" => (NonEmpty(title) /\ NonEmpty(description))
  /\ LET formData == [title |-> title, description |-> description, color |-> color]
         optimisticCard == [id |-> TempId(clock),
                            title |-> title,
                            description |-> description,
                            color |-> IF color = "" THEN "#000000" ELSE color]
         started == createCardActionStart(formData)
     IN  /\ optQueue' = Append(optQueue, [type |-> "create", data |-> optimisticCard])
         /\ createOp' = started @@ [formData |-> formData, tempId |-> optimisticCard.id]
  /\ isPending' = TRUE
  /\ optimisticCards' = Render(variant, cards, optQueue')
  /\ createBefore' = cards
  /\ lastEvent' = Ev("handleCreateCard")
  /\ UNCHANGED <<variant, srvCards, clock, cards, createState, deleteState,
                 pendingOperations, deleteOps, effectPending, deletedIds>>
  /\ UNCHANGED apiVars
  /\ UNCHANGED pageVars

\* the backend handles the POST
ServerPOST ==
  /\ createOp.stage = "request"
  /\ LET r == POST(createOp.body, srvCards, clock)
     IN  /\ srvCards' = r.store
         /\ createOp' = [createOp EXCEPT !.stage = "response"]
                          @@ [response |-> [success |-> r.success, card |-> r.card]]
  /\ lastEvent' = Ev("POST")
  /\ UNCHANGED <<variant, clock, cards, optQueue, optimisticCards, isPending,
                 createState, deleteState, pendingOperations, deleteOps,
                 effectPending, createBefore, deletedIds>>
  /\ UNCHANGED apiVars
  /\ UNCHANGED pageVars

\* fetch rejects: the POST never reaches the backend
CreateFetchFails ==
  /\ createOp.stage = "request"
  /\ createOp' = [createOp EXCEPT !.stage = "threw"]
  /\ lastEvent' = Ev("createFetchFails")
  /\ UNCHANGED <<variant, srvCards, clock, cards, optQueue, optimisticCards,
                 isPending, createState, deleteState, pendingOperations,
                 deleteOps, effectPending, createBefore, deletedIds>>
  /\ UNCHANGED apiVars
  /\ UNCHANGED pageVars

\* the backend has handled the POST but the body of its answer does not
\* arrive: response.json() throws
CreateResponseLost ==
  /\ createOp.stage = "response"
  /\ createOp' = [createOp EXCEPT !.stage = "threw"]
  /\ lastEvent' = Ev("createResponseLost")
  /\ UNCHANGED <<variant, srvCards, clock, cards, optQueue, optimisticCards,
                 isPending, createState, deleteState, pendingOperations,
                 deleteOps, effectPending, createBefore, deletedIds>>
  /\ UNCHANGED apiVars
  /\ UNCHANGED pageVars

\* createCardAction returns; useActionState stores the result and the
\* transition ends: the optimistic updates are dropped, the transition-lane
\* setPendingOperations of handleCreateCard (line 574) is applied
CreateResolves ==
  /\ createOp.stage \in {"returned", "threw", "response"}
  /\ LET result == createCardActionResult(createOp)
     IN  /\ createState' = result
         \* time has passed since the backend stored the card: the round
         \* trip, and await new Promise((resolve) => setTimeout(resolve, 3000))
         /\ clock' = IF createOp.stage \in {"response", "threw"}
                         /\ "response" \in DOMAIN createOp
                         /\ createOp.response.success
                      THEN clock + 1 ELSE clock
  /\ pendingOperations' =
       IF variant = "markPending" THEN pendingOperations \cup {createOp.tempId}
       ELSE pendingOperations
  /\ optQueue' = <<>>
  /\ isPending' = FALSE
  /\ optimisticCards' = Render(variant, cards, optQueue')
  /\ createOp' = Idle
  /\ effectPending' = "create"
  /\ lastEvent' = Ev("createResolves")
  /\ UNCHANGED <<variant, srvCards, cards, deleteState, deleteOps, createBefore, deletedIds>>
  /\ UNCHANGED apiVars
  /\ UNCHANGED pageVars

\* mutant of createEffectRemove: the filter of the failure branch lost its `!`
createEffectRemoveInverted(prev) ==
  IF createState.success /\ createState.card # NoCard
  THEN Append(FilterOutTemp(prev), createState.card)
  ELSE IF createState.success = FALSE /\ createState.message # ""
  THEN SelectSeq(prev, LAMBDA c : StartsWithTemp(c.id))
  ELSE prev

\* useEffect(..., [createState]) of the "remove" variant (lines 83-94)
createEffectRemove(prev) ==
  IF createState.success /\ createState.card # NoCard
  THEN Append(FilterOutTemp(prev), createState.card)
  ELSE IF createState.success = FALSE /\ createState.message # ""
  THEN FilterOutTemp(prev)
  ELSE prev

\* mutant of createEffectMark: the confirmed card is put in front of the list
createEffectMarkPrepend(prev) ==
  IF createState.success /\ createState.card # NoCard
  THEN <<createState.card>> \o FilterOutTemp(prev)
  ELSE prev

\* mutant of createEffectMark: setCards is handed a list built from the `cards`
\* of the render in which the create was submitted, not an updater function
createEffectMarkStale(prev) ==
  IF createState.success /\ createState.card # NoCard
  THEN Append(FilterOutTemp(createBefore), createState.card)
  ELSE prev

\* useEffect(..., [createState]) of the "markPending" variant (lines 489-509):
\* the new `cards`
createEffectMark(prev) ==
  IF createState.success /\ createState.card # NoCard
  THEN Append(FilterOutTemp(prev), createState.card)
  ELSE prev

\* ... and the new pendingOperations
createEffectMarkPending(prev) ==
  IF createState.success /\ createState.card # NoCard
  THEN {id \in prev : ~StartsWithTemp(id)}
  ELSE prev

CreateEffect ==
  /\ effectPending = "create"
  /\ cards' = IF variant = "remove" THEN createEffectRemove(cards)
                                    ELSE createEffectMark(cards)
  /\ pendingOperations' =
       IF variant = "remove" THEN pendingOperations
       ELSE createEffectMarkPending(pendingOperations)
  /\ optimisticCards' = Render(variant, cards', optQueue)
  /\ effectPending' = "none"
  /\ lastEvent' = Ev("createEffect")
  /\ UNCHANGED <<variant, srvCards, clock, optQueue, isPending, createState,
                 deleteState, createOp, deleteOps, createBefore, deletedIds>>
  /\ UNCHANGED apiVars
  /\ UNCHANGED pageVars

\* ------------------------------------------------------------ delete flow
\* handleDeleteCard of the "remove" variant (lines 188-202): deleteAction is
\* the dispatcher of useActionState(deleteCardAction, initialActionState), so
\* deleteCardAction is called as (previous state, formData)
handleDeleteCardRemove(cardId) ==
  /\ variant = "remove"
  /\ UserCanAct
  /\ \E i \in 1..Len(optimisticCards) :
       optimisticCards[i].id = cardId /\ ~deleteDisabled(optimisticCards[i])
  /\ Cardinality(deleteOps) < MaxInFlight
  /\ optQueue' = Append(optQueue, [type |-> "delete", data |-> cardId])
  /\ isPending' = TRUE
  /\ deleteOps' = deleteOps \cup
       {deleteCardActionStart(deleteState)
          @@ [cardId |-> cardId, existed |-> cardId \in Ids(srvCards)]}
  /\ optimisticCards' = Render(variant, cards, optQueue')
  /\ lastEvent' = [Ev("handleDeleteCard") EXCEPT !.id = cardId]
  /\ UNCHANGED <<variant, srvCards, clock, cards, createState, deleteState,
                 pendingOperations, createOp, effectPending, createBefore, deletedIds>>
  /\ UNCHANGED apiVars
  /\ UNCHANGED pageVars

\* mutant of handleDeleteCardMark: the card is taken out of `cards` before the
\* backend has answered
handleDeleteCardMarkEager(cardId) ==
  /\ variant = "markPending"
  /\ UserCanAct
  /\ \E i \in 1..Len(optimisticCards) :
       optimisticCards[i].id = cardId /\ ~deleteDisabled(optimisticCards[i])
  /\ Cardinality(deleteOps) < MaxInFlight
  /\ Len(optQueue) < MaxQueue
  /\ pendingOperations' = pendingOperations \cup {cardId}
  /\ optQueue' = IF isPending
                 THEN Append(optQueue, [type |-> "delete", data |-> cardId])
                 ELSE optQueue
  /\ deleteOps' = deleteOps \cup
       {deleteCardActionStart(JsString(cardId))
          @@ [cardId |-> cardId, existed |-> cardId \in Ids(srvCards)]}
  /\ cards' = FilterOutId(cards, cardId)
  /\ optimisticCards' = Render(variant, cards', optQueue')
  /\ lastEvent' = [Ev("handleDeleteCard") EXCEPT !.id = cardId]
  /\ UNCHANGED <<variant, srvCards, clock, isPending, createState,
                 deleteState, createOp, effectPending, createBefore, deletedIds>>
  /\ UNCHANGED apiVars
  /\ UNCHANGED pageVars

\* handleDeleteCard of the "markPending" variant (lines 596-623) up to its
\* await.  The transition it starts has a synchronous callback: its
\* optimistic update lives on only while an action transition is pending.
handleDeleteCardMark(cardId) ==
  /\ variant = "markPending"
  /\ UserCanAct
  /\ \E i \in 1..Len(optimisticCards) :
       optimisticCards[i].id = cardId /\ ~deleteDisabled(optimisticCards[i])
  /\ Cardinality(deleteOps) < MaxInFlight
  /\ Len(optQueue) < MaxQueue
  /\ pendingOperations' = pendingOperations \cup {cardId}
  /\ optQueue' = IF isPending
                 THEN Append(optQueue, [type |-> "delete", data |-> cardId])
                 ELSE optQueue
  /\ deleteOps' = deleteOps \cup
       {deleteCardActionStart(JsString(cardId))
          @@ [cardId |-> cardId, existed |-> cardId \in Ids(srvCards)]}
  /\ optimisticCards' = Render(variant, cards, optQueue')
  /\ lastEvent' = [Ev("handleDeleteCard") EXCEPT !.id = cardId]
  /\ UNCHANGED <<variant, srvCards, clock, cards, isPending, createState,
                 deleteState, createOp, effectPending, createBefore, deletedIds>>
  /\ UNCHANGED apiVars
  /\ UNCHANGED pageVars

\* the backend handles a DELETE
ServerDELETE(op) ==
  /\ op \in deleteOps
  /\ op.stage = "request"
  /\ LET r == DELETE(op.reqId, srvCards)
     IN  /\ srvCards' = r.store
         /\ deleteOps' = (deleteOps \ {op})
              \cup {[op EXCEPT !.stage = IF r.status = 200 THEN "ok" ELSE "notOk"]}
  /\ lastEvent' = Ev("DELETE")
  /\ UNCHANGED <<variant, clock, cards, optQueue, optimisticCards, isPending,
                 createState, deleteState, pendingOperations, createOp,
                 effectPending, createBefore, deletedIds>>
  /\ UNCHANGED apiVars
  /\ UNCHANGED pageVars

\* fetch rejects: the DELETE never reaches the backend
DeleteFetchFails(op) ==
  /\ op \in deleteOps
  /\ op.stage = "request"
  /\ deleteOps' = (deleteOps \ {op}) \cup {[op EXCEPT !.stage = "threw"]}
  /\ lastEvent' = Ev("deleteFetchFails")
  /\ UNCHANGED <<variant, srvCards, clock, cards, optQueue, optimisticCards,
                 isPending, createState, deleteState, pendingOperations,
                 createOp, effectPending, createBefore, deletedIds>>
  /\ UNCHANGED apiVars
  /\ UNCHANGED pageVars

\* "remove" variant: deleteCardAction returns, useActionState stores the
\* boolean as deleteState and the transition ends
DeleteResolvesRemove(op) ==
  /\ variant = "remove"
  /\ op \in deleteOps
  /\ op.stage \in {"ok", "notOk", "threw"}
  /\ deleteState' = JsBoolean(deleteCardActionResult(op))
  /\ clock' = IF deleteCardActionResult(op) THEN clock + 1 ELSE clock
  /\ deleteOps' = deleteOps \ {op}
  /\ optQueue' = <<>>
  /\ isPending' = FALSE
  /\ optimisticCards' = Render(variant, cards, optQueue')
  /\ effectPending' = "delete"
  /\ lastEvent' = DeleteEv("deleteResolves", op, deleteCardActionResult(op))
  /\ UNCHANGED <<variant, srvCards, cards, createState, pendingOperations,
                 createOp, createBefore, deletedIds>>
  /\ UNCHANGED apiVars
  /\ UNCHANGED pageVars

\* useEffect(..., [deleteState]) of the "remove" variant (lines 96-106);
\* a boolean has no `success` and no `card`
deleteEffectRemove(prev) ==
  IF deleteState.kind = "object" /\ deleteState.success /\ deleteState.card # NoCard
  THEN FilterOutId(prev, deleteState.card.id)
  ELSE prev

DeleteEffect ==
  /\ effectPending = "delete"
  /\ cards' = deleteEffectRemove(cards)
  /\ optimisticCards' = Render(variant, cards', optQueue)
  /\ effectPending' = "none"
  /\ deletedIds' = deletedIds \cup (Ids(cards) \ Ids(cards'))
  /\ lastEvent' = [lastEvent EXCEPT !.kind = "deleteEffect"]
  /\ UNCHANGED <<variant, srvCards, clock, optQueue, isPending, createState,
                 deleteState, pendingOperations, createOp, deleteOps, createBefore>>
  /\ UNCHANGED apiVars
  /\ UNCHANGED pageVars

\* mutant of deleteContinuation: the filter compares with === instead of !==
deleteContinuationInverted(op, prev) ==
  IF deleteCardActionResult(op)
  THEN SelectSeq(prev, LAMBDA c : c.id = op.cardId)
  ELSE prev

\* "markPending" variant: handleDeleteCard resumes after its await
\* (lines 607-622)
deleteContinuation(op, prev) ==
  IF deleteCardActionResult(op) THEN FilterOutId(prev, op.cardId) ELSE prev

\* mutant of deleteFinally: the pending mark is cleared in the success branch
\* only
deleteFinallyOnSuccess(op, prev) ==
  IF deleteCardActionResult(op) THEN prev \ {op.cardId} ELSE prev

\* mutant of deleteFinally: no finally block
deleteFinallyMissing(op, prev) == prev

\* finally { setPendingOperations(...) } (lines 615-622)
deleteFinally(op, prev) == prev \ {op.cardId}

DeleteResolvesMark(op) ==
  /\ variant = "markPending"
  /\ op \in deleteOps
  /\ op.stage \in {"ok", "notOk", "threw"}
  /\ cards' = deleteContinuation(op, cards)
  /\ pendingOperations' = deleteFinally(op, pendingOperations)
  /\ deleteOps' = deleteOps \ {op}
  /\ optimisticCards' = Render(variant, cards', optQueue)
  /\ deletedIds' = IF deleteCardActionResult(op) THEN deletedIds \cup {op.cardId}
                   ELSE deletedIds
  /\ lastEvent' = DeleteEv("deleteResolves", op, deleteCardActionResult(op))
  /\ UNCHANGED <<variant, srvCards, clock, optQueue, isPending, createState,
                 deleteState, createOp, effectPending, createBefore>>
  /\ UNCHANGED apiVars
  /\ UNCHANGED pageVars

\* ------------------------------------------------------------------- Next
Next ==
  \/ \E t \in FormTexts, d \in FormTexts, c \in FormColors : handleCreateCard(t, d, c)
  \/ ServerPOST
  \/ CreateFetchFails
  \/ CreateResponseLost
  \/ CreateResolves
  \/ CreateEffect
  \/ \E id \in Ids(optimisticCards) : handleDeleteCardRemove(id)
  \/ \E id \in Ids(optimisticCards) : handleDeleteCardMark(id)
  \/ \E op \in deleteOps : ServerDELETE(op)
  \/ \E op \in deleteOps : DeleteFetchFails(op)
  \/ \E op \in deleteOps : DeleteResolvesRemove(op)
  \/ DeleteEffect
  \/ \E op \in deleteOps : DeleteResolvesMark(op)

Spec == Init /\ [][Next]_vars

\* ------------------------------------------------- the scheduling assumed
\* the ids a delete can be submitted for
DeletableIds ==
  Ids(loadInitialCards) \cup {ServerId(Epoch + k) : k \in 0..MaxCreates}

\* the backend answers every request or the fetch fails (the assumption of
\* the claim), the promise of an action that has settled is resumed, and the
\* passive effects of a commit are run
Fairness ==
  /\ WF_vars(ServerPOST \/ CreateFetchFails)
  /\ WF_vars(CreateResolves)
  /\ WF_vars(CreateEffect)
  /\ WF_vars(DeleteEffect)
  /\ \A id \in DeletableIds :
       /\ WF_vars(\E op \in deleteOps :
                    op.cardId = id /\ (ServerDELETE(op) \/ DeleteFetchFails(op)))
       /\ WF_vars(\E op \in deleteOps :
                    op.cardId = id /\ (DeleteResolvesRemove(op) \/ DeleteResolvesMark(op)))

\* the titles submitted where only the fate of a mutation is followed: one
\* the backend accepts and one it rejects
LiveTitles == {<<"a">>, <<" ">>}

LiveNext ==
  \/ \E t \in LiveTitles, c \in FormColors : handleCreateCard(t, <<"a">>, c)
  \/ ServerPOST
  \/ CreateFetchFails
  \/ CreateResponseLost
  \/ CreateResolves
  \/ CreateEffect
  \/ \E id \in Ids(optimisticCards) : handleDeleteCardRemove(id)
  \/ \E id \in Ids(optimisticCards) : handleDeleteCardMark(id)
  \/ \E op \in deleteOps : ServerDELETE(op)
  \/ \E op \in deleteOps : DeleteFetchFails(op)
  \/ \E op \in deleteOps : DeleteResolvesRemove(op)
  \/ DeleteEffect
  \/ \E op \in deleteOps : DeleteResolvesMark(op)

LiveSpec == Init /\ [][LiveNext]_vars /\ Fairness

\* ------------------------------------------ parts of the system on their own
\* the variables that belong to the handlers of the card manager
managerRest ==
  <<isPending, createState, deleteState, pendingOperations, createOp,
    deleteOps, effectPending, createBefore, deletedIds>>

\* their values while no handler has run
ManagerAtRest ==
  /\ isPending = FALSE
  /\ createState = initialActionState
  /\ deleteState = initialActionState
  /\ pendingOperations = {}
  /\ createOp = Idle
  /\ deleteOps = {}
  /\ effectPending = "none"
  /\ createBefore = <<>>
  /\ deletedIds = {}

\* --------------------------------------------- the API route on its own
\* what any HTTP client can put into the title and the description of a POST
\* body: the texts of the form, or no such field
ApiTexts == FormTexts \cup {Undefined}

\* the bodies tried: every title with a description and no color, every
\* description with a title and a color
ApiBodies ==
  {[title |-> t, description |-> <<"a">>, color |-> ""] : t \in ApiTexts}
    \cup {[title |-> <<"a">>, description |-> d, color |-> "#ff0000"] : d \in ApiTexts}

\* the id parameter of a DELETE: an id of the store, another id, or none
ApiIds == Ids(srvCards) \cup {ServerId(0), NullId}

\* a server process that has just started: `let cards = []`
ApiInit ==
  /\ srvCards = <<>>
  /\ clock = Epoch
  /\ getOps = 0
  /\ apiResponse = NoResponse
  /\ fixtureLoads = 0
  /\ NoPage
  /\ lastEvent = Ev("start")
  /\ variant = "remove"
  /\ cards = <<>>
  /\ optQueue = <<>>
  /\ optimisticCards = <<>>
  /\ ManagerAtRest

\* the variables of the card manager, which the route never touches
clientVars == <<variant, cards, optQueue, optimisticCards>>

\* Date.now() moves on between two calls
ApiTick ==
  /\ clock - Epoch < MaxTicks
  /\ clock' = clock + 1
  /\ lastEvent' = Ev("tick")
  /\ UNCHANGED <<srvCards, getOps, apiResponse, fixtureLoads>>
  /\ UNCHANGED clientVars
  /\ UNCHANGED managerRest
  /\ UNCHANGED pageVars

\* POST /api/cards with a JSON body
ApiPOST(body) ==
  /\ Len(srvCards) < MaxStore
  /\ LET r == POST(body, srvCards, clock)
     IN  /\ srvCards' = r.store
         /\ apiResponse' = Response(r.status, r.card, <<>>)
  /\ lastEvent' = Ev("POST")
  /\ UNCHANGED <<clock, getOps, fixtureLoads>>
  /\ UNCHANGED clientVars
  /\ UNCHANGED managerRest
  /\ UNCHANGED pageVars

\* POST /api/cards with a body that is not JSON: request.json() throws
ApiPOSTMalformed ==
  /\ apiResponse' = Response(500, NoCard, <<>>)
  /\ lastEvent' = Ev("POSTMalformed")
  /\ UNCHANGED <<srvCards, clock, getOps, fixtureLoads>>
  /\ UNCHANGED clientVars
  /\ UNCHANGED managerRest
  /\ UNCHANGED pageVars

\* DELETE /api/cards?id=<id>
ApiDELETE(id) ==
  /\ LET r == DELETE(id, srvCards)
     IN  /\ srvCards' = r.store
         /\ apiResponse' = Response(r.status, NoCard, <<>>)
  /\ lastEvent' = Ev("DELETE")
  /\ UNCHANGED <<clock, getOps, fixtureLoads>>
  /\ UNCHANGED clientVars
  /\ UNCHANGED managerRest
  /\ UNCHANGED pageVars

\* GET /api/cards up to its await: with cards in the store it answers at
\* once, with none it calls loadInitialCards
GET ==
  /\ IF Len(srvCards) = 0
     THEN /\ getOps < MaxInFlight
          /\ fixtureLoads + getOps < MaxLoads
          /\ getOps' = getOps + 1
          /\ apiResponse' = apiResponse
     ELSE /\ getOps' = getOps
          /\ apiResponse' = Response(200, NoCard, srvCards)
  /\ lastEvent' = Ev("GET")
  /\ UNCHANGED <<srvCards, clock, fixtureLoads>>
  /\ UNCHANGED clientVars
  /\ UNCHANGED managerRest
  /\ UNCHANGED pageVars

\* loadInitialCards has fetched mock.json: cards = await loadInitialCards()
GETLoaded ==
  /\ getOps > 0
  /\ getOps' = getOps - 1
  /\ srvCards' = loadInitialCards
  /\ fixtureLoads' = fixtureLoads + 1
  /\ apiResponse' = Response(200, NoCard, srvCards')
  /\ lastEvent' = Ev("GETLoaded")
  /\ UNCHANGED clock
  /\ UNCHANGED clientVars
  /\ UNCHANGED managerRest
  /\ UNCHANGED pageVars

\* loadInitialCards could not fetch mock.json and returns []
GETLoadFailed ==
  /\ getOps > 0
  /\ getOps' = getOps - 1
  /\ srvCards' = <<>>
  /\ apiResponse' = Response(200, NoCard, srvCards')
  /\ lastEvent' = Ev("GETLoadFailed")
  /\ UNCHANGED <<clock, fixtureLoads>>
  /\ UNCHANGED clientVars
  /\ UNCHANGED managerRest
  /\ UNCHANGED pageVars

ApiNext ==
  \/ ApiTick
  \/ \E body \in ApiBodies : ApiPOST(body)
  \/ ApiPOSTMalformed
  \/ \E id \in ApiIds : ApiDELETE(id)
  \/ GET
  \/ GETLoaded
  \/ GETLoadFailed

ApiSpec == ApiInit /\ [][ApiNext]_vars

\* ------------------------------------------- the reducer on its own inputs
\* cards a base list is made of: confirmed ones and a transient one
ReducerCards ==
  {[id |-> id, title |-> <<"a">>, description |-> <<"a">>, color |-> "#000000"] :
     id \in {ServerId(1), ServerId(2), TempId(Epoch)}}

\* every list of at most MaxBase of them, repetitions included
ReducerBases == UNION {[1..n -> ReducerCards] : n \in 0..MaxBase}

\* the mutations optimisticUpdate can be handed, one of a kind the reducer
\* does not know included
ReducerMutations ==
  {[type |-> "create", data |-> c] : c \in ReducerCards}
    \cup {[type |-> "delete", data |-> c.id] : c \in ReducerCards}
    \cup {[type |-> "update", data |-> ServerId(1)]}

ReducerInit ==
  /\ variant = "remove"
  /\ cards \in ReducerBases
  /\ optQueue = <<>>
  /\ optimisticCards = cards
  /\ srvCards = <<>>
  /\ clock = Epoch
  /\ ManagerAtRest
  /\ lastEvent = Ev("mount")
  /\ getOps = 0
  /\ apiResponse = NoResponse
  /\ fixtureLoads = 0
  /\ NoPage

\* optimisticUpdate(mutation): the reducer is applied to the list derived so
\* far; spread and filter build a new array, the one handed in is left alone
optimisticUpdate(mutation) ==
  /\ Len(optQueue) < MaxQueue
  /\ optQueue' = Append(optQueue, mutation)
  /\ optimisticCards' = optimisticReducerRemove(optimisticCards, mutation)
  /\ lastEvent' = Ev("optimisticUpdate")
  /\ UNCHANGED <<variant, cards, srvCards, clock>>
  /\ UNCHANGED managerRest
  /\ UNCHANGED apiVars
  /\ UNCHANGED pageVars

\* a render without a new mutation recomputes the projection from `cards` and
\* the mutations of the transition
Rerender ==
  /\ lastEvent.kind = "optimisticUpdate"
  /\ optimisticCards' = Render(variant, cards, optQueue)
  /\ lastEvent' = Ev("render")
  /\ UNCHANGED <<variant, cards, optQueue, srvCards, clock>>
  /\ UNCHANGED managerRest
  /\ UNCHANGED apiVars
  /\ UNCHANGED pageVars

ReducerNext ==
  \/ \E mutation \in ReducerMutations : optimisticUpdate(mutation)
  \/ Rerender

ReducerSpec == ReducerInit /\ [][ReducerNext]_vars

\* ------------------------------------------------------- the page (MainClient)
\* no mutation is in flight and nothing waits to be committed
ManagerSettled ==
  /\ createOp = Idle
  /\ deleteOps = {}
  /\ effectPending = "none"
  /\ ~isPending

\* onClick={() => setShowManager(!showManager)}: entering manager mode mounts
\* CardManager with cards={initialCards}, leaving it unmounts the component
\* and drops its state.  The toggles taken are those made while no mutation
\* is in flight.
toggleShowManager ==
  /\ showManager => ManagerSettled
  /\ showManager' = ~showManager
  /\ cards' = IF showManager THEN <<>> ELSE initialCards
  /\ optimisticCards' = IF showManager THEN <<>> ELSE initialCards
  /\ optQueue' = <<>>
  /\ isPending' = FALSE
  /\ createState' = initialActionState
  /\ deleteState' = initialActionState
  /\ pendingOperations' = {}
  /\ createOp' = Idle
  /\ deleteOps' = {}
  /\ effectPending' = "none"
  /\ createBefore' = <<>>
  /\ deletedIds' = {}
  /\ lastEvent' = Ev(IF showManager THEN "unmount" ELSE "mount")
  /\ UNCHANGED <<variant, srvCards, clock>>
  /\ UNCHANGED apiVars
  /\ UNCHANGED <<search, currentPage, initialCards, pagerProps, pages>>

\* page.tsx has resolved cardPromise and MainClient shows the list
PageInit ==
  /\ variant \in {"remove", "markPending"}
  /\ srvCards = loadInitialCards
  /\ clock = Epoch
  /\ cards = <<>>
  /\ optQueue = <<>>
  /\ optimisticCards = <<>>
  /\ ManagerAtRest
  /\ lastEvent = Ev("load")
  /\ getOps = 0
  /\ apiResponse = Response(200, NoCard, loadInitialCards)
  /\ fixtureLoads = 1
  /\ initialCards = loadInitialCards
  /\ showManager = FALSE
  /\ search = <<>>
  /\ currentPage = 1
  /\ pagerProps = NoProps
  /\ pages = <<>>

\* the page with a backend that answers every request
PageNext ==
  \/ toggleShowManager
  \/ \E t \in FormTexts, d \in FormTexts, c \in FormColors : handleCreateCard(t, d, c)
  \/ ServerPOST
  \/ CreateResolves
  \/ CreateEffect
  \/ \E id \in Ids(optimisticCards) : handleDeleteCardRemove(id)
  \/ \E id \in Ids(optimisticCards) : handleDeleteCardMark(id)
  \/ \E op \in deleteOps : ServerDELETE(op)
  \/ \E op \in deleteOps : DeleteResolvesRemove(op)
  \/ DeleteEffect
  \/ \E op \in deleteOps : DeleteResolvesMark(op)

PageSpec == PageInit /\ [][PageNext]_vars

\* ------------------------------------------------ the list view on its own
itemsPerPage == 12

Max(a, b) == IF a >= b THEN a ELSE b
Min(a, b) == IF a <= b THEN a ELSE b

\* Math.ceil(n / d) of two positive integers
Ceil(n, d) == (n + d - 1) \div d

\* String.prototype.toLowerCase on the letters used
LowerOf(ch) == CASE ch = "A" -> "a" [] ch = "B" -> "b" [] OTHER -> ch
toLowerCase(s) == [i \in 1..Len(s) |-> LowerOf(s[i])]

\* String.prototype.includes
includes(s, q) ==
  \E i \in 0..(Len(s) - Len(q)) : SubSeq(s, i + 1, i + Len(q)) = q

\* Array.prototype.slice(from, to), 0 <= from <= to
slice(list, from, to) == SubSeq(list, from + 1, Min(to, Len(list)))

filteredCards ==
  SelectSeq(initialCards,
            LAMBDA card :
              \/ includes(toLowerCase(card.title), toLowerCase(search))
              \/ includes(toLowerCase(card.description), toLowerCase(search)))

totalPages == Ceil(Len(filteredCards), itemsPerPage)
startIndex == (currentPage - 1) * itemsPerPage
endIndex == startIndex + itemsPerPage
currentCards == slice(filteredCards, startIndex, endIndex)

\* an entry of the list of generatePageNumbers: a page number or "..."
PageEntry(n) == <<"page", n>>
Ellipsis == <<"...", 0>>
IsPage(entry) == entry[1] = "page"

\* mutant of generatePageNumbers: an ellipsis follows page 1 whenever page 1
\* is added
generatePageNumbersEagerEllipsis(props) ==
  LET halfVisible == props.maxVisiblePages \div 2
      startPage0 == Max(1, props.currentPage - halfVisible)
      endPage0 == Min(props.totalPages, props.currentPage + halfVisible)
      short == endPage0 - startPage0 + 1 < props.maxVisiblePages
      endPage == IF short /\ startPage0 = 1
                 THEN Min(props.totalPages, startPage0 + props.maxVisiblePages - 1)
                 ELSE endPage0
      startPage == IF short /\ startPage0 # 1
                   THEN Max(1, endPage0 - props.maxVisiblePages + 1)
                   ELSE startPage0
      first == IF startPage > 1 THEN <<PageEntry(1), Ellipsis>> ELSE <<>>
      visible == [i \in 1..(endPage - startPage + 1) |-> PageEntry(startPage + i - 1)]
      last == IF endPage < props.totalPages
              THEN (IF endPage < props.totalPages - 1 THEN <<Ellipsis>> ELSE <<>>)
                   \o <<PageEntry(props.totalPages)>>
              ELSE <<>>
  IN  first \o visible \o last

\* generatePageNumbers (Pagination.tsx lines 48-86) for the props of the
\* component
generatePageNumbers(props) ==
  LET halfVisible == props.maxVisiblePages \div 2
      startPage0 == Max(1, props.currentPage - halfVisible)
      endPage0 == Min(props.totalPages, props.currentPage + halfVisible)
      \* if (endPage - startPage + 1 < maxVisiblePages)
      short == endPage0 - startPage0 + 1 < props.maxVisiblePages
      endPage == IF short /\ startPage0 = 1
                 THEN Min(props.totalPages, startPage0 + props.maxVisiblePages - 1)
                 ELSE endPage0
      startPage == IF short /\ startPage0 # 1
                   THEN Max(1, endPage0 - props.maxVisiblePages + 1)
                   ELSE startPage0
      first == IF startPage > 1
               THEN <<PageEntry(1)>> \o (IF startPage > 2 THEN <<Ellipsis>> ELSE <<>>)
               ELSE <<>>
      visible == [i \in 1..(endPage - startPage + 1) |-> PageEntry(startPage + i - 1)]
      last == IF endPage < props.totalPages
              THEN (IF endPage < props.totalPages - 1 THEN <<Ellipsis>> ELSE <<>>)
                   \o <<PageEntry(props.totalPages)>>
              ELSE <<>>
  IN  first \o visible \o last

\* the page numbers of the links of a rendered list
PageLinks(list) == {list[i][2] : i \in {j \in 1..Len(list) : IsPage(list[j])}}

\* the props MainClient hands to Pagination
PaginationProps ==
  [currentPage |-> currentPage, totalPages |-> totalPages,
   maxVisiblePages |-> NoProps.maxVisiblePages]

\* Pagination is rendered in list mode and returns null if (totalPages <= 1)
PaginationRendered == ~showManager /\ totalPages > 1

\* the largest list fetchCards hands to the page
MaxCards == 85

\* cards whose titles and descriptions differ in the letters and their case
ListCard(i) ==
  [id |-> ServerId(i),
   title |-> IF i % 2 = 1 THEN <<"a">> ELSE <<"B">>,
   description |-> IF i % 3 = 0 THEN <<"a", "b">> ELSE <<" ">>,
   color |-> "#000000"]
ListCards(n) == [i \in 1..n |-> ListCard(i)]

\* what the user types into the search bar
Queries == {<<>>, <<"a">>, <<"A">>, <<"b">>, <<"a", "b">>, <<"c">>}

ListInit ==
  /\ variant = "markPending"
  /\ initialCards \in {ListCards(n) : n \in 0..MaxCards}
  /\ srvCards = initialCards
  /\ clock = Epoch
  /\ cards = <<>>
  /\ optQueue = <<>>
  /\ optimisticCards = <<>>
  /\ ManagerAtRest
  /\ lastEvent = Ev("load")
  /\ getOps = 0
  /\ apiResponse = Response(200, NoCard, initialCards)
  /\ fixtureLoads = 1
  /\ showManager = FALSE
  /\ search = <<>>
  /\ currentPage = 1
  /\ pagerProps = NoProps
  /\ pages = <<>>

listRest == <<variant, srvCards, clock, cards, optQueue, optimisticCards,
              showManager, initialCards, pagerProps, pages>>

\* mutant of handleSearch: the page is kept
handleSearchKeepsPage(query) ==
  /\ ~showManager
  /\ search' = query
  /\ UNCHANGED currentPage
  /\ lastEvent' = Ev("search")
  /\ UNCHANGED listRest
  /\ UNCHANGED managerRest
  /\ UNCHANGED apiVars

\* handleSearch (MainClient.tsx lines 51-54), taken in the list view
handleSearch(query) ==
  /\ ~showManager
  /\ search' = query
  /\ currentPage' = 1
  /\ lastEvent' = Ev("search")
  /\ UNCHANGED listRest
  /\ UNCHANGED managerRest
  /\ UNCHANGED apiVars

\* onPageChange={setCurrentPage}
onPageChange(page, kind) ==
  /\ currentPage' = page
  /\ lastEvent' = Ev(kind)
  /\ UNCHANGED search
  /\ UNCHANGED listRest
  /\ UNCHANGED managerRest
  /\ UNCHANGED apiVars

handlePrevious ==
  /\ PaginationRendered
  /\ onPageChange(IF currentPage > 1 THEN currentPage - 1 ELSE currentPage, "previous")

handleNext ==
  /\ PaginationRendered
  /\ onPageChange(IF currentPage < totalPages THEN currentPage + 1 ELSE currentPage, "next")

\* the button is rendered if showFirstLast && currentPage > 1
handleFirst ==
  /\ PaginationRendered
  /\ currentPage > 1
  /\ onPageChange(1, "first")

\* the button is rendered if showFirstLast && currentPage < totalPages
handleLast ==
  /\ PaginationRendered
  /\ currentPage < totalPages
  /\ onPageChange(totalPages, "last")

\* onClick={() => onPageChange(page as number)} of a page link
PageLinkClick(page) ==
  /\ PaginationRendered
  /\ onPageChange(page, "link")

ListNext ==
  \/ \E query \in Queries : handleSearch(query)
  \/ handlePrevious
  \/ handleNext
  \/ handleFirst
  \/ handleLast
  \/ \E page \in PageLinks(generatePageNumbers(PaginationProps)) : PageLinkClick(page)

ListSpec == ListInit /\ [][ListNext]_vars

\* ------------------------------------------ generatePageNumbers on its inputs
MaxPages == 9
MaxVisible == 7

\* the props Pagination renders page numbers for: it returns null before
\* generatePageNumbers is called if (totalPages <= 1)
PagerInputs ==
  {p \in [currentPage : 1..MaxPages, totalPages : 2..MaxPages,
          maxVisiblePages : 1..MaxVisible] : p.currentPage <= p.totalPages}

PagerInit ==
  /\ pagerProps \in PagerInputs
  /\ pages = <<>>
  /\ showManager = FALSE
  /\ search = <<>>
  /\ currentPage = 1
  /\ initialCards = <<>>
  /\ variant = "markPending"
  /\ srvCards = <<>>
  /\ clock = Epoch
  /\ cards = <<>>
  /\ optQueue = <<>>
  /\ optimisticCards = <<>>
  /\ ManagerAtRest
  /\ lastEvent = Ev("props")
  /\ getOps = 0
  /\ apiResponse = NoResponse
  /\ fixtureLoads = 0

pagerRest == <<variant, srvCards, clock, cards, optQueue, optimisticCards,
               showManager, search, currentPage, initialCards>>

\* {generatePageNumbers().map(...)} of a render
RenderPagination ==
  /\ lastEvent.kind # "render"
  /\ pages' = generatePageNumbers(pagerProps)
  /\ lastEvent' = Ev("render")
  /\ UNCHANGED pagerProps
  /\ UNCHANGED pagerRest
  /\ UNCHANGED managerRest
  /\ UNCHANGED apiVars

\* a page link of the rendered list is clicked and the parent hands the new
\* currentPage down
PagerPageChange(page) ==
  /\ lastEvent.kind = "render"
  /\ pagerProps' = [pagerProps EXCEPT !.currentPage = page]
  /\ pages' = <<>>
  /\ lastEvent' = Ev("pageChange")
  /\ UNCHANGED pagerRest
  /\ UNCHANGED managerRest
  /\ UNCHANGED apiVars

PagerNext ==
  \/ RenderPagination
  \/ \E page \in PageLinks(pages) : PagerPageChange(page)

PagerSpec == PagerInit /\ [][PagerNext]_vars

\* =================================================================== claims
CreateReconciled(ok) == lastEvent.kind = "createEffect" /\ createState.success = ok

\* the cards of `before` whose delete has not been confirmed, in their order
Surviving(before) == SelectSeq(before, LAMBDA c : c.id \notin deletedIds)

\* C1 as stated: once an accepted create has been reconciled, the store is
\* the store as it was when the create was submitted followed by the one
\* card the backend confirmed, and the projection shows no "temp-" card.
C1_CreateRoundTrip ==
  CreateReconciled(TRUE) =>
    /\ cards = Append(createBefore, createState.card)
    /\ createState.card.id \in Ids(srvCards)
    /\ NoTemp(optimisticCards)

\* C1 amended: once an accepted create has been reconciled, the store is the
\* store as it was when the create was submitted, without the cards whose
\* delete was confirmed in the meantime, followed by exactly one new card
\* that carries the id the backend assigned; with the "remove" variant
\* nothing is removed in the meantime.  The projection shows no "temp-" card.
C1_CreateRoundTripAmended ==
  CreateReconciled(TRUE) =>
    /\ cards = Append(Surviving(createBefore), createState.card)
    /\ variant = "remove" => Surviving(createBefore) = createBefore
    /\ createState.card.id \notin Ids(createBefore)
    /\ createState.card.id \in Ids(srvCards)
    /\ ~StartsWithTemp(createState.card.id)
    /\ NoTemp(optimisticCards)

\* an accepted create reconciled after a delete was confirmed in between
C1_Witness == CreateReconciled(TRUE) /\ Surviving(createBefore) # createBefore

\* C2 as stated: once a failed create has been reconciled, the store is
\* identical to the store as it was when the create was submitted, and the
\* projection shows no "temp-" card.
C2_CreateRollback ==
  CreateReconciled(FALSE) =>
    /\ cards = createBefore
    /\ NoTemp(optimisticCards)

\* C2 amended: once a failed create has been reconciled, the store is the
\* store as it was when the create was submitted without the cards whose
\* delete was confirmed in the meantime (same entities, same order; with the
\* "remove" variant it is identical), and the projection shows no "temp-"
\* card.
C2_CreateRollbackAmended ==
  CreateReconciled(FALSE) =>
    /\ cards = Surviving(createBefore)
    /\ variant = "remove" => cards = createBefore
    /\ NoTemp(optimisticCards)

\* a create the backend rejected, reconciled after a delete was confirmed in
\* between
C2_Witness ==
  /\ CreateReconciled(FALSE)
  /\ createState.error = "api_error"
  /\ Surviving(createBefore) # createBefore

\* a delete submitted for a card the backend held has run to its end: the
\* action resolved and, with the "remove" variant, its effect has run
DeleteDone(v, ok) ==
  /\ variant = v
  /\ lastEvent.kind = (IF v = "remove" THEN "deleteEffect" ELSE "deleteResolves")
  /\ lastEvent.success = ok

\* C3: with the "remove" variant, once the delete of a card that the backend
\* holds has resolved, the store no longer contains the card and the
\* projection does not show it.
C3_DeleteRoundTripRemove ==
  (variant = "remove" /\ lastEvent.kind = "deleteEffect" /\ lastEvent.existed) =>
    /\ lastEvent.id \notin Ids(cards)
    /\ lastEvent.id \notin Ids(optimisticCards)

\* C4: with the "markPending" variant, the step that handles a confirmed
\* delete removes exactly the card with that id from the store and keeps
\* every other card in its order; a card removed this way is in the store or
\* in the projection in no later state.
C4_ConfirmedDeleteStep ==
  \A op \in deleteOps :
    (variant = "markPending" /\ op.stage = "ok" /\ op \notin deleteOps') =>
      \E k \in 1..Len(cards) :
        /\ cards[k].id = op.cardId
        /\ cards' = SubSeq(cards, 1, k - 1) \o SubSeq(cards, k + 1, Len(cards))
        /\ op.cardId \notin Ids(cards')

C4_GoneForGood ==
  variant = "markPending" =>
    \A id \in deletedIds : id \notin Ids(cards) /\ id \notin Ids(optimisticCards)

C4_DeleteRoundTripMark == [][C4_ConfirmedDeleteStep]_vars /\ []C4_GoneForGood

C4_Witness == DeleteDone("markPending", TRUE) /\ Len(cards) >= 2

\* C5: once a delete has resolved with a failure, the store and the
\* projection both contain the card, the card is not marked pending and its
\* delete button is enabled; in both variants.
C5_DeleteRollback ==
  \A v \in {"remove", "markPending"} :
    DeleteDone(v, FALSE) =>
      /\ lastEvent.id \in Ids(cards)
      /\ \E i \in 1..Len(optimisticCards) : optimisticCards[i].id = lastEvent.id
      /\ \A i \in 1..Len(optimisticCards) :
           optimisticCards[i].id = lastEvent.id =>
             /\ ~deleteDisabled(optimisticCards[i])
             /\ variant = "markPending" => ~cardIsPending(optimisticCards[i])

C5_Witness == DeleteDone("markPending", FALSE) /\ isPending

\* a step in which the user submits the create form
CreateSubmitted == createOp.stage = "idle" /\ createOp'.stage # "idle"

\* C6: submitting a create whose title is empty sends no POST and leaves the
\* projection as it was.
C6_EmptyTitleShortCircuit ==
  [][(CreateSubmitted /\ createOp'.formData.title = <<>>) =>
       (createOp'.stage # "request" /\ optimisticCards' = optimisticCards)]_vars

\* C7: a create whose title or description is empty after trimming fails with
\* a validation error, leaves the projection as it was and sends no POST.
C7_TrimBeforeValidate ==
  [][(CreateSubmitted /\ (Trim(createOp'.formData.title) = <<>>
                            \/ Trim(createOp'.formData.description) = <<>>)) =>
       /\ createOp'.stage = "returned"
       /\ createCardActionResult(createOp').error = "validation_error"
       /\ optimisticCards' = optimisticCards]_vars

\* C8: in every reachable state no card of the store has a "temp-" id.
C8_NoTransientInStore == NoTemp(cards)

C8_Witness == ~NoTemp(optimisticCards) /\ deleteOps # {}

\* C9: the steps of handleCreateCard and handleDeleteCard up to the
\* submission leave the store unchanged; the store changes only in a step
\* that handles a resolved action.
C9_SpeculativeFrame ==
  [][/\ (CreateSubmitted \/ Cardinality(deleteOps') > Cardinality(deleteOps))
          => cards' = cards
     /\ cards' # cards =>
          lastEvent'.kind \in {"createEffect", "deleteEffect", "deleteResolves"}]_vars

C9_Witness ==
  /\ lastEvent.kind = "handleDeleteCard"
  /\ createOp.stage = "request"
  /\ optimisticCards # cards

\* C10: whenever no mutation is in flight, the projection equals the store.
C10_ProjectionIsStore ==
  (createOp.stage = "idle" /\ deleteOps = {}) => optimisticCards = cards

C10_Witness ==
  /\ createOp.stage = "idle" /\ deleteOps = {}
  /\ cards # loadInitialCards
  /\ lastEvent.kind = "createEffect"

\* the reference of the reducer: `delete` by recursion over the list
RECURSIVE Without(_, _)
Without(list, id) ==
  IF list = <<>> THEN <<>>
  ELSE IF Head(list).id = id THEN Without(Tail(list), id)
  ELSE <<Head(list)>> \o Without(Tail(list), id)

Reference(base, mutation) ==
  IF mutation.type = "create" THEN base \o <<mutation.data>>
  ELSE IF mutation.type = "delete" THEN Without(base, mutation.data)
  ELSE base

RECURSIVE ReferenceAll(_, _)
ReferenceAll(base, mutations) ==
  IF mutations = <<>> THEN base
  ELSE ReferenceAll(Reference(base, Head(mutations)), Tail(mutations))

\* C11: for every base list and every mutation the optimistic-remove reducer
\* returns what its reference returns (create appends the payload at the end,
\* delete drops the cards with the payload id and keeps the order of the
\* rest, any other kind returns the list as it is); the base list is never
\* modified, and recomputing the projection from the same base and the same
\* mutations yields the same list.
C11_ReducerStep ==
  \A mutation \in ReducerMutations :
    optQueue' = Append(optQueue, mutation) =>
      /\ optimisticCards' = Reference(optimisticCards, mutation)
      /\ cards' = cards

C11_Recomputed == optimisticCards = ReferenceAll(cards, optQueue)

C11_ReducerPurity == [][C11_ReducerStep]_vars /\ []C11_Recomputed

\* a delete has dropped two cards of the same id from a list that keeps a
\* third, after a create
C11_Witness ==
  /\ lastEvent.kind = "render"
  /\ Len(optQueue) = 2
  /\ optQueue[1].type = "create"
  /\ optQueue[2].type = "delete"
  /\ Len(cards) = 2
  /\ Len(optimisticCards) = 1

\* C12: for any card id at most one delete is in flight: handleDeleteCard
\* never starts for an id whose delete has not resolved yet, and while a delete
\* of a card is in flight the delete control of that card is disabled.
C12_NoSecondDelete ==
  lastEvent'.kind = "handleDeleteCard" =>
    \A op \in deleteOps : op.cardId # lastEvent'.id

C12_ControlDisabled ==
  \A op \in deleteOps :
    \A i \in 1..Len(optimisticCards) :
      optimisticCards[i].id = op.cardId => deleteDisabled(optimisticCards[i])

C12_SingleDeleteInFlight == [][C12_NoSecondDelete]_vars /\ []C12_ControlDisabled

\* a delete of one card is in flight, its control is disabled, no transition
\* is pending and the control of another card is enabled
C12_Witness ==
  /\ variant = "markPending"
  /\ ~isPending
  /\ \E op \in deleteOps : op.stage = "request" /\ op.cardId \in Ids(optimisticCards)
  /\ \E i \in 1..Len(optimisticCards) : ~deleteDisabled(optimisticCards[i])

\* C13: every mutation the user triggers that passes validation causes
\* exactly one backend request: a create one POST, a delete one DELETE that
\* carries the card id handed to handleDeleteCard; this holds for every delete
\* of a sequence.
C13_OneRequestPerMutation ==
  [][/\ (CreateSubmitted /\ NonEmpty(createOp'.formData.title)
                          /\ NonEmpty(createOp'.formData.description))
          => createOp'.stage = "request"
     /\ lastEvent'.kind = "handleDeleteCard" =>
          \E op \in deleteOps' :
            /\ op.cardId = lastEvent'.id
            /\ op.stage = "request"
            /\ op.reqId = lastEvent'.id]_vars

\* C14: no failure leaves createCardAction or deleteCardAction as an
\* exception: createCardAction settles with an ActionState, which for a
\* validation failure, a non-success response and a thrown fetch or JSON error
\* has success=false, a non-empty message and the error kind validation_error,
\* api_error and server_error respectively; deleteCardAction settles with
\* false for every outcome but a 200.
C14_CreateSettles ==
  lastEvent'.kind = "createResolves" =>
    /\ createState'.kind = "object"
    /\ createOp.stage = "returned" =>
         (~createState'.success /\ createState'.message # ""
            /\ createState'.error = "validation_error")
    /\ (createOp.stage = "response" /\ ~createOp.response.success) =>
         (~createState'.success /\ createState'.message # ""
            /\ createState'.error = "api_error")
    /\ createOp.stage = "threw" =>
         (~createState'.success /\ createState'.message # ""
            /\ createState'.error = "server_error")

C14_DeleteSettles ==
  \A op \in deleteOps \ deleteOps' :
    (lastEvent'.kind = "deleteResolves" /\ op.stage \in {"notOk", "threw"}) =>
      /\ lastEvent'.success = FALSE
      /\ variant = "remove" => deleteState' = JsBoolean(FALSE)

C14_NoEscape == [][C14_CreateSettles /\ C14_DeleteSettles]_vars

\* a create whose answer was lost after the backend had stored the card has
\* settled with server_error
C14_Witness ==
  /\ lastEvent.kind = "createResolves"
  /\ createState.error = "server_error"
  /\ Len(srvCards) > Len(loadInitialCards)

\* C15: POST with a title and a description that are both present and
\* non-empty answers 201 and the backend store becomes its previous contents
\* followed by exactly one new card with the trimmed title and description,
\* colored "#000000" when the body names no color; POST with a missing or
\* empty title or description answers with an error status and leaves the
\* backend store unchanged.
C15_PostStep ==
  \A body \in ApiBodies :
    (lastEvent'.kind = "POST" /\ ApiPOST(body)) =>
      IF body.title \notin {Undefined, <<>>} /\ body.description \notin {Undefined, <<>>}
      THEN /\ apiResponse'.status = 201
           /\ Len(srvCards') = Len(srvCards) + 1
           /\ SubSeq(srvCards', 1, Len(srvCards)) = srvCards
           /\ LET new == srvCards'[Len(srvCards')]
              IN  /\ new.title = Trim(body.title)
                  /\ new.description = Trim(body.description)
                  /\ new.color = (IF body.color = "" THEN "#000000" ELSE body.color)
                  /\ apiResponse'.card = new
      ELSE /\ apiResponse'.status >= 400
           /\ srvCards' = srvCards

C15_PostContract == [][C15_PostStep]_vars

\* a POST without a color has been stored behind the cards of the fixture
C15_Witness ==
  /\ lastEvent.kind = "POST"
  /\ apiResponse.status = 201
  /\ apiResponse.card.color = "#000000"
  /\ Len(srvCards) = Len(loadInitialCards) + 1
  /\ srvCards[Len(srvCards)] = apiResponse.card
  /\ srvCards[1] = loadInitialCards[1]

\* C16: DELETE with an id of the store answers 200 and removes exactly one
\* card, which has that id, keeping all others in their order; with an id
\* that is not in the store it answers 404, with no id 400, and in both cases
\* the backend store is unchanged.
C16_DeleteStep ==
  \A id \in ApiIds :
    (lastEvent'.kind = "DELETE" /\ ApiDELETE(id)) =>
      IF id = NullId
      THEN apiResponse'.status = 400 /\ srvCards' = srvCards
      ELSE IF id \notin Ids(srvCards)
      THEN apiResponse'.status = 404 /\ srvCards' = srvCards
      ELSE /\ apiResponse'.status = 200
           /\ \E k \in 1..Len(srvCards) :
                /\ srvCards[k].id = id
                /\ srvCards' = SubSeq(srvCards, 1, k - 1)
                                 \o SubSeq(srvCards, k + 1, Len(srvCards))

C16_DeleteContract == [][C16_DeleteStep]_vars

\* a DELETE has taken the first of three cards out of the store
C16_Witness ==
  /\ lastEvent.kind = "DELETE"
  /\ apiResponse.status = 200
  /\ Len(srvCards) = 2
  /\ ServerId(1) \notin Ids(srvCards)
  /\ ServerId(2) \in Ids(srvCards)

\* C17: GET assigns the fixture to the backend store at most once in the life
\* of a server process, on the first call that finds the store empty; no
\* later GET seeds again.
C17_SeedOnce == fixtureLoads <= 1

\* C18: after any sequence of GET, POST and DELETE calls no two cards of the
\* backend store have the same id.
C18_UniqueIds ==
  \A i, j \in 1..Len(srvCards) : i # j => srvCards[i].id # srvCards[j].id

\* C19: every card of the backend store has a non-empty title and a non-empty
\* description, whatever the bodies of the POSTs were.
C19_NonEmptyStored ==
  \A i \in 1..Len(srvCards) :
    srvCards[i].title # <<>> /\ srvCards[i].description # <<>>

\* the positions of the projection that hold a "temp-" card
TransientPositions ==
  {i \in 1..Len(optimisticCards) : StartsWithTemp(optimisticCards[i].id)}

CreatesInFlight == IF createOp.stage = "idle" THEN 0 ELSE 1

\* C20: in every reachable state the projection holds as many "temp-" cards
\* as there are creates in flight, and no two of them have the same id.
C20_TransientPerCreate ==
  /\ Cardinality(TransientPositions) = CreatesInFlight
  /\ \A i, j \in TransientPositions :
       i # j => optimisticCards[i].id # optimisticCards[j].id

\* a create is in flight and answered by the backend while a delete is in
\* flight too: the projection holds one "temp-" card
C20_Witness ==
  /\ createOp.stage = "response"
  /\ deleteOps # {}
  /\ Cardinality(TransientPositions) = 1

\* C21: once a create has resolved and been reconciled, successfully or not,
\* pendingOperations holds no "temp-" id.
C21_TransientPurged ==
  (createOp.stage = "idle" /\ effectPending = "none") =>
    \A id \in pendingOperations : ~StartsWithTemp(id)

\* C22: every resolved result is reconciled into the store, whatever the
\* interleaving: the step that consumes a confirmed create puts its card into
\* the store and drops no confirmed card, the step that consumes a confirmed
\* delete takes its card out, and no later reconciliation undoes an earlier
\* one: a card of a confirmed create is in the store until its own delete is
\* confirmed, a card of a confirmed delete never is.
C22_CreateConsumed ==
  (lastEvent'.kind = "createEffect" /\ createState.success) =>
    /\ createState.card.id \in Ids(cards')
    /\ \A id \in Ids(cards) : StartsWithTemp(id) \/ id \in Ids(cards')

C22_DeleteConsumed ==
  (lastEvent'.kind \in {"deleteResolves", "deleteEffect"} /\ lastEvent'.success
     /\ (variant = "remove" => lastEvent'.kind = "deleteEffect")) =>
    /\ lastEvent'.id \notin Ids(cards')
    /\ \A id \in Ids(cards) : id = lastEvent'.id \/ id \in Ids(cards')

C22_NothingUndone ==
  /\ \A id \in deletedIds : id \notin Ids(cards)
  /\ (createState.success /\ effectPending = "none") =>
       (createState.card.id \in Ids(cards) \/ createState.card.id \in deletedIds)

C22_AtLeastOnce ==
  [][C22_CreateConsumed /\ C22_DeleteConsumed]_vars /\ []C22_NothingUndone

\* a confirmed delete has been consumed after a confirmed create resolved and
\* before the effect of that create has run
C22_Witness ==
  /\ variant = "markPending"
  /\ effectPending = "create"
  /\ createState.success
  /\ lastEvent.kind = "deleteResolves"
  /\ lastEvent.success

\* C23: while a delete is in flight, with the "markPending" variant its card
\* is in the projection, flagged pending and its delete control is disabled;
\* with the "remove" variant its card is not in the projection.
C23_PendingDelete ==
  \A op \in deleteOps :
    IF variant = "markPending"
    THEN /\ op.cardId \in Ids(optimisticCards)
         /\ \A i \in 1..Len(optimisticCards) :
              optimisticCards[i].id = op.cardId =>
                cardIsPending(optimisticCards[i]) /\ deleteDisabled(optimisticCards[i])
    ELSE op.cardId \notin Ids(optimisticCards)

\* a delete is in flight next to a create: the projection holds the card of
\* the delete and the "temp-" card
C23_Witness ==
  /\ variant = "markPending"
  /\ createOp.stage = "request"
  /\ optQueue # <<>> /\ optQueue[Len(optQueue)].type = "delete"
  /\ \E op \in deleteOps : op.stage = "ok"

\* C24: the delete control of every confirmed card that has no delete of its
\* own in flight is enabled, whatever other mutation is in flight.
C24_SelectiveDisabling ==
  \A i \in 1..Len(optimisticCards) :
    (/\ ~StartsWithTemp(optimisticCards[i].id)
     /\ \A op \in deleteOps : op.cardId # optimisticCards[i].id)
      => ~deleteDisabled(optimisticCards[i])

\* C25: every submitted mutation runs to completion.  A create in flight
\* eventually resolves, and so does the delete of every card; a mutation
\* leaves the flow only by resolving; and once no mutation is in flight,
\* isPending is false and the delete control of every confirmed card is
\* enabled.
C25_OnlyResolvingEnds ==
  /\ (createOp.stage # "idle" /\ createOp'.stage = "idle")
       => lastEvent'.kind = "createResolves"
  /\ \A op \in deleteOps :
       (\A next \in deleteOps' : next.cardId # op.cardId)
         => (lastEvent'.kind = "deleteResolves" /\ lastEvent'.id = op.cardId)

C25_EnabledAgain ==
  (createOp.stage = "idle" /\ deleteOps = {}) =>
    /\ ~isPending
    /\ \A i \in 1..Len(optimisticCards) :
         ~StartsWithTemp(optimisticCards[i].id) => ~deleteDisabled(optimisticCards[i])

C25_RunsToCompletion ==
  \* at every moment the create, and the delete of each card, is resolved
  \* then or later
  /\ []<>(createOp.stage = "idle")
  /\ \A id \in DeletableIds : []<>(\A op \in deleteOps : op.cardId # id)
  /\ [][C25_OnlyResolvingEnds]_vars
  /\ []C25_EnabledAgain

\* a create and a delete that were in flight together have both resolved
C25_Witness ==
  /\ createOp.stage = "idle" /\ deleteOps = {}
  /\ createState.success
  /\ deletedIds # {}
  /\ Surviving(createBefore) # createBefore

\* C26: whenever no mutation is in flight, the cards shown to the user (the
\* store of CardManager in manager mode, the list of MainClient in list
\* mode) have exactly the ids the backend store holds.
ShownCards == IF showManager THEN cards ELSE currentCards

C26_ShownMatchesBackend ==
  ManagerSettled => Ids(ShownCards) = Ids(srvCards)

\* C27: from the moment a create is speculatively applied until it has been
\* reconciled successfully, the projection holds either the transient card
\* or the confirmed card of that create, never neither and never both.
HasTransient == ~NoTemp(optimisticCards)

C27_TempOrConfirmed ==
  /\ createOp.stage # "idle" =>
       /\ createOp.tempId \in Ids(optimisticCards)
       /\ ("response" \in DOMAIN createOp /\ createOp.response.success)
            => createOp.response.card.id \notin Ids(optimisticCards)
  /\ (effectPending = "create" /\ createState.success /\ createState.card # NoCard) =>
       (HasTransient <=> createState.card.id \notin Ids(optimisticCards))

\* C28: no delete is ever submitted for a transient id.  The delete control
\* of every card whose id starts with "temp-" is disabled, so neither
\* handleDeleteCard nor deleteCardAction nor the backend DELETE is ever given
\* a "temp-" id.
C28_NoTransientDelete ==
  /\ \A i \in 1..Len(optimisticCards) :
       StartsWithTemp(optimisticCards[i].id) => deleteDisabled(optimisticCards[i])
  /\ \A op \in deleteOps : ~StartsWithTemp(op.cardId) /\ ~StartsWithTemp(op.reqId)
  /\ lastEvent.kind \in {"handleDeleteCard", "DELETE", "deleteResolves"}
       => ~StartsWithTemp(lastEvent.id)

\* a transient card is shown while the delete of a confirmed card is in flight
C28_Witness ==
  /\ HasTransient
  /\ deleteOps # {}
  /\ \E i \in 1..Len(optimisticCards) :
       ~StartsWithTemp(optimisticCards[i].id) /\ ~deleteDisabled(optimisticCards[i])

\* C29: in the list view, after any sequence of searches and page-control
\* actions, 1 <= currentPage <= max(1, totalPages) with totalPages =
\* ceil(number of cards matching the search / 12), and every search leaves
\* the current page at 1.
Matching ==
  {i \in 1..Len(initialCards) :
     \/ includes(toLowerCase(initialCards[i].title), toLowerCase(search))
     \/ includes(toLowerCase(initialCards[i].description), toLowerCase(search))}

C29_PageInRange ==
  /\ 1 <= currentPage
  /\ currentPage <= Max(1, totalPages)
  /\ totalPages * 12 >= Cardinality(Matching)
  /\ (totalPages - 1) * 12 < Max(1, Cardinality(Matching))
  /\ lastEvent.kind = "search" => currentPage = 1

\* after a search that left fewer pages, the user has gone to the last page
\* by its link
C29_Witness ==
  /\ lastEvent.kind = "link"
  /\ search # <<>>
  /\ totalPages >= 3
  /\ currentPage = totalPages
  /\ totalPages < Ceil(Len(initialCards), itemsPerPage)

\* C30: for totalPages >= 2, 1 <= currentPage <= totalPages and
\* maxVisiblePages >= 1, the numeric entries of the list of
\* generatePageNumbers are strictly increasing and within 1..totalPages, the
\* list contains 1, currentPage and totalPages, and an ellipsis stands only
\* between two numbers that differ by more than 1.
C30_PageNumbers ==
  lastEvent.kind = "render" =>
    /\ \A i \in 1..Len(pages) : pages[i] = Ellipsis \/ IsPage(pages[i])
    /\ \A i \in 1..Len(pages) : IsPage(pages[i]) => pages[i][2] \in 1..pagerProps.totalPages
    /\ \A i, j \in 1..Len(pages) :
         (i < j /\ IsPage(pages[i]) /\ IsPage(pages[j])) => pages[i][2] < pages[j][2]
    /\ {1, pagerProps.currentPage, pagerProps.totalPages} \subseteq PageLinks(pages)
    /\ \A i \in 1..Len(pages) :
         pages[i] = Ellipsis =>
           /\ 1 < i /\ i < Len(pages)
           /\ IsPage(pages[i - 1]) /\ IsPage(pages[i + 1])
           /\ pages[i + 1][2] - pages[i - 1][2] > 1

\* a list with an ellipsis on either side of the visible pages
C30_Witness ==
  /\ lastEvent.kind = "render"
  /\ \E i, j \in 1..Len(pages) : i < j /\ pages[i] = Ellipsis /\ pages[j] = Ellipsis

====
